---- MODULE Spec2Model ----
(***************************************************************************)
(* Stage-event recording (POST /add-stage-event) and dual-source           *)
(* verification (GET /batch-stages/:formatted_batch_id) of the herb        *)
(* provenance API, src/backend/routes/aiRoutes.js lines 79-275, with the   *)
(* ledger client of src/unnamed/part_001.                                  *)
(*                                                                         *)
(* JavaScript values are records [t |-> type, s |-> literal text].         *)
(***************************************************************************)
EXTENDS Integers, Sequences, FiniteSets, Bags, TLC

\* ------------------------------------------------------------------ bounds

\* Number of add-stage-event requests the server handles (one handler each).
NumHandlers == 2

\* ------------------------------------------------------------ JS values

Undefined == [t |-> "undefined", s |-> ""]
Null == [t |-> "null", s |-> "null"]
EmptyObject == [t |-> "object", s |-> "{}"]
MoistureObject == [t |-> "object", s |-> "{\"moisture\":12}"]
Function == [t |-> "function", s |-> "function Object() { [native code] }"]

Str(x) == [t |-> "string", s |-> x]
Num(x) == [t |-> "number", s |-> x]

\* ToBoolean, as used by `!x` and `x || y`.
Truthy(v) ==
  CASE v.t \in {"undefined", "null"} -> FALSE
    [] v.t = "boolean" -> v.s = "true"
    [] v.t = "number" -> v.s \notin {"0", "NaN"}
    [] v.t = "string" -> v.s # ""
    [] OTHER -> TRUE

\* `x == undefined` (loose equality: true of undefined and null only).
LooseEqUndefined(v) == v.t \in {"undefined", "null"}

\* JSON.stringify(v): undefined and functions have no JSON text.
JSONStringify(v) ==
  CASE v.t \in {"undefined", "function"} -> Undefined
    [] v.t = "string" -> Str("\"" \o v.s \o "\"")
    [] OTHER -> Str(v.s)

\* parseInt(v): the value is converted to a string and its leading decimal
\* digits are read; [nan |-> TRUE] is NaN.
ParseInt(v) ==
  CASE v.t \in {"number", "string", "bigint"} /\ v.s = "0" -> [nan |-> FALSE, n |-> 0]
    [] v.t \in {"number", "string", "bigint"} /\ v.s = "1" -> [nan |-> FALSE, n |-> 1]
    [] v.t \in {"number", "string", "bigint"} /\ v.s = "2" -> [nan |-> FALSE, n |-> 2]
    [] OTHER -> [nan |-> TRUE, n |-> 0]

\* a === b on two numbers: NaN is equal to nothing.
StrictEqNumber(a, b) == ~a.nan /\ ~b.nan /\ a.n = b.n

\* -------------------------------------------------------- request inputs

BatchIdInputs == {Undefined, Str("1")}

StageTypeInputs ==
  {Undefined, Str("Harvest"), Str("constructor"), Str("CollectionEvent"), Str("QualityTest")}

MetadataInputs == {Undefined, Null, EmptyObject, MoistureObject}

\* ------------------------------------------------------------ event_stages

OwnStageKeys == {"CollectionEvent", "QualityTest", "ProcessingStep"}

\* Properties every plain object inherits from Object.prototype.
ObjectPrototypeKeys == {"constructor", "toString", "valueOf", "hasOwnProperty"}

\* The property key a value is converted to in obj[v].
PropertyKey(v) == IF v.t = "undefined" THEN "undefined" ELSE v.s

\* event_stages[stage_type]
event_stages(stage_type) ==
  LET k == PropertyKey(stage_type) IN
  CASE k = "CollectionEvent" -> Num("0")
    [] k = "QualityTest" -> Num("1")
    [] k = "ProcessingStep" -> Num("2")
    [] k \in ObjectPrototypeKeys -> Function
    [] OTHER -> Undefined

\* ---------------------------------------------------------- createBatchHash

\* SHA-256 hex digest of a string, taken as injective (collision resistance).
Sha256Hex(text) == "sha256:" \o text

\* hash.update(x) throws a TypeError unless x is a string (or a buffer).
HashUpdateThrows(metadata) == JSONStringify(metadata).t # "string"

createBatchHash(metadata) == Sha256Hex(JSONStringify(metadata).s)

\* ------------------------------------------------------------ HTTP response

NewRes == [statusCode |-> 200, headersSent |-> FALSE, wire |-> <<>>, calls |-> 0]

\* res.status(code)
ResStatus(res, code) == [res EXCEPT !.statusCode = code]

\* res.json(body) throws ERR_HTTP_HEADERS_SENT once a response has been sent.
ResJsonThrows(res) == res.headersSent

\* res.json(body): `wire` is what the client receives, `calls` counts the sends
\* the handler attempted.
ResJson(res, body) ==
  IF ResJsonThrows(res)
  THEN [res EXCEPT !.calls = @ + 1]
  ELSE [res EXCEPT !.calls = @ + 1, !.headersSent = TRUE,
                   !.wire = Append(@, [status |-> res.statusCode, body |-> body])]

ErrorBody(msg) == [message |-> msg, data |-> <<>>, batchHash |-> ""]

\* ------------------------------------------------------------------- state

\* store:  the rows of table stage_events, in insertion order
\* ledger: the contract's stage list of each batch
\* rs:     the add-stage-event handlers started so far, each with its locals,
\*         its position and its res object (a bag: handlers carry no identity)
\* gs:     the batch-stages handler (locals, position, res)
VARIABLES store, ledger, rs, gs

vars == <<store, ledger, rs, gs>>

\* The batch ids the contract keeps a stage list for.
LedgerBatches == {1, 2}

NoRequest == [formatted_batch_id |-> Undefined, stage_type |-> Undefined, metadata |-> Undefined]

NewHandler ==
  [pc |-> "start", req |-> NoRequest, batchHash |-> "", data |-> <<>>,
   res |-> NewRes, logged |-> <<>>]

IdleGet ==
  [pc |-> "idle", formatted_batch_id |-> Undefined, supabaseStages |-> <<>>,
   onChainStages |-> <<>>, res |-> NewRes, logged |-> <<>>]

Init ==
  /\ store = <<>>
  /\ ledger = [b \in LedgerBatches |-> <<>>]
  /\ rs = EmptyBag
  /\ gs = IdleGet

RecordHandlers == BagToSet(rs)

\* Handler r takes a step and becomes r2.
Step(r, r2) == (rs (-) SetToBag({r})) (+) SetToBag({r2})

\* ------------------------------------------------- POST /add-stage-event

\* The catch block: log, then res.status(500).json(...). When the 201 has
\* already been sent res.json throws inside the catch block and the handler's
\* promise is rejected.
CatchRecordError(r, msg) ==
  [r EXCEPT !.logged = Append(@, "Error recording stage event:"),
            !.res = ResJson(ResStatus(r.res, 500), ErrorBody(msg)),
            !.pc = IF ResJsonThrows(r.res) THEN "rejected" ELSE "done"]

\* The validation of stage_type: TRUE when the request is turned down.
InvalidStageType(stage_type) == LooseEqUndefined(event_stages(stage_type))

\* The validation of the required fields: TRUE when the request is turned down.
MissingRequired(req) ==
  ~Truthy(req.formatted_batch_id) \/ LooseEqUndefined(req.stage_type)

\* The handler from its start to its first await (the store insert).
StartRecord(req) ==
  LET r == [NewHandler EXCEPT !.req = req] IN
  IF InvalidStageType(req.stage_type)
  THEN [r EXCEPT !.pc = "done",
                 !.res = ResJson(ResStatus(r.res, 400), ErrorBody("Invalid stage type"))]
  ELSE IF MissingRequired(req)
  THEN [r EXCEPT !.pc = "done",
                 !.res = ResJson(ResStatus(r.res, 400),
                                 ErrorBody("batch_id and stage_type are required"))]
  ELSE IF HashUpdateThrows(req.metadata)
  THEN CatchRecordError(r, "The \"data\" argument must be of type string")
  ELSE [r EXCEPT !.pc = "insert", !.batchHash = createBatchHash(req.metadata)]

\* A value as it arrives in a JSON request body: a function-valued property
\* is left out, and the column is then NULL.
JsonColumn(v) == IF JSONStringify(v).t = "string" THEN v ELSE Null

\* event_data: metadata || {}
EventData(metadata) == IF Truthy(metadata) THEN metadata ELSE EmptyObject

\* The row handed to supabase.from('stage_events').insert([...]).
InsertedRow(r, created_at) ==
  [batch_id |-> r.req.formatted_batch_id,
   event_type |-> JsonColumn(event_stages(r.req.stage_type)),
   event_data |-> EventData(r.req.metadata),
   event_hash |-> r.batchHash,
   created_at |-> created_at]

\* created_at defaults to the store's clock at the insert, which has moved on
\* since the insert before it.
NextCreatedAt == IF store = <<>> THEN 1 ELSE store[Len(store)].created_at + 1

ReceiveRecord ==
  /\ BagCardinality(rs) < NumHandlers
  /\ \E b \in BatchIdInputs, s \in StageTypeInputs, m \in MetadataInputs :
       rs' = rs (+) SetToBag({StartRecord([formatted_batch_id |-> b, stage_type |-> s,
                                          metadata |-> m])})
  /\ UNCHANGED <<store, ledger, gs>>

\* A handler that calls addStage first and leaves the 201 for afterwards.
AfterInsertLedgerFirst(r, row) == [r EXCEPT !.pc = "addStage", !.data = <<row>>]

\* The insert returned no error: send the 201, then call addStage.
AfterInsert(r, row) ==
  [r EXCEPT !.pc = "addStage", !.data = <<row>>,
            !.res = ResJson(ResStatus(r.res, 201),
                            [message |-> "Stage event recorded successfully",
                             data |-> <<row>>, batchHash |-> r.batchHash])]

\* The insert returned an error: it is thrown and the catch block runs.
InsertFailed(r) == CatchRecordError(r, "store error")

\* await supabase...insert([...]).select(): the store inserts the row and
\* returns it, or returns an error; the handler goes on to its next await.
StoreInsert(r) ==
  /\ r.pc = "insert"
  /\ \/ LET row == InsertedRow(r, NextCreatedAt) IN
          /\ store' = Append(store, row)
          /\ rs' = Step(r, AfterInsert(r, row))
     \/ /\ rs' = Step(r, InsertFailed(r))
        /\ UNCHANGED store
  /\ UNCHANGED <<ledger, gs>>

\* The contract call can only be encoded for a numeric batch id and stage type.
AddStageEncodable(batchId, stageType) ==
  /\ stageType.t = "number"
  /\ ~ParseInt(batchId).nan
  /\ ParseInt(batchId).n \in LedgerBatches

\* The LedgerStage that contract.addStage appends (its block timestamp, which
\* no comparison reads, is left out).
LedgerStage(stageType, metadataHash) ==
  [stageType |-> [t |-> "bigint", s |-> stageType.s], metadataHash |-> metadataHash]

\* addStage resolved: log the transaction and return.
AfterAddStage(r) == [r EXCEPT !.pc = "done", !.logged = Append(@, "txHash")]

\* addStage rejected: the catch block runs.
AddStageFailed(r) == CatchRecordError(r, "ledger error")

\* await addStage(batchId, event_stages[stage_type], batchHash): the stage is
\* appended on the ledger, or the call fails.
AddStage(r) ==
  /\ r.pc = "addStage"
  /\ LET batchId == r.req.formatted_batch_id
         stageType == event_stages(r.req.stage_type)
     IN \/ /\ AddStageEncodable(batchId, stageType)
           /\ ledger' = [ledger EXCEPT ![ParseInt(batchId).n] =
                            Append(@, LedgerStage(stageType, r.batchHash))]
           /\ rs' = Step(r, AfterAddStage(r))
        \/ /\ rs' = Step(r, AddStageFailed(r))
           /\ UNCHANGED ledger
  /\ UNCHANGED <<store, gs>>

\* ------------------------------------- GET /batch-stages/:formatted_batch_id

\* The route only matches a non-empty path segment.
BatchIdParams == {Str("1"), Str("2")}

\* The query with { ascending: false }.
OrderByCreatedAtDescending(rows) ==
  LET n == Len(rows)
      perms == {p \in [1..n -> 1..n] :
                  /\ \A a, b \in 1..n : a # b => p[a] # p[b]
                  /\ \A a, b \in 1..n :
                       a < b => rows[p[a]].created_at >= rows[p[b]].created_at}
  IN {[k \in 1..n |-> rows[p[k]]] : p \in perms}

\* The orders a list of rows can be sorted into by created_at ascending.
OrderByCreatedAt(rows) ==
  LET n == Len(rows)
      perms == {p \in [1..n -> 1..n] :
                  /\ \A a, b \in 1..n : a # b => p[a] # p[b]
                  /\ \A a, b \in 1..n :
                       a < b => rows[p[a]].created_at <= rows[p[b]].created_at}
  IN {[k \in 1..n |-> rows[p[k]]] : p \in perms}

\* .eq('batch_id', batch_id)
IsOfBatch(row, batch_id) == row.batch_id = batch_id

\* supabase.from('stage_events').select('*').eq(...).order('created_at', ...)
SelectStages(batch_id) ==
  OrderByCreatedAt(SelectSeq(store, LAMBDA row : IsOfBatch(row, batch_id)))

\* onChainStages.find(stage => parseInt(stage.stageType) === parseInt(event_type)):
\* the first stage of that kind, or none.
FindOnChainStage(onChainStages, event_type) ==
  LET hits == {k \in 1..Len(onChainStages) :
                 StrictEqNumber(ParseInt(onChainStages[k].stageType), ParseInt(event_type))}
  IN IF hits = {}
     THEN <<>>
     ELSE <<onChainStages[CHOOSE k \in hits : \A m \in hits : k <= m]>>

\* JSON.parse(JSON.stringify(stage, bigint -> string))
SafeOnChainStage(stage) ==
  [stageType |-> Str(stage.stageType.s), metadataHash |-> stage.metadataHash]

IsDataValid(supabaseStage) ==
  createBatchHash(supabaseStage.event_data) = supabaseStage.event_hash

\* A lookup made whether or not the data is valid.
OnChainLookupUnguarded(supabaseStage, onChainStages) ==
  LET found == FindOnChainStage(onChainStages, supabaseStage.event_type)
  IN IF found = <<>> THEN <<>> ELSE <<SafeOnChainStage(found[1])>>

\* The on-chain lookup of processStage, made only when the data is valid.
OnChainLookup(supabaseStage, onChainStages) ==
  IF IsDataValid(supabaseStage)
  THEN LET found == FindOnChainStage(onChainStages, supabaseStage.event_type)
       IN IF found = <<>> THEN <<>> ELSE <<SafeOnChainStage(found[1])>>
  ELSE <<>>

processStage(supabaseStage, onChainStages) ==
  LET isDataValid == IsDataValid(supabaseStage)
      safeOnChainStage == OnChainLookup(supabaseStage, onChainStages)
      onChainVerification ==
        IF safeOnChainStage # <<>>
        THEN safeOnChainStage[1].metadataHash = supabaseStage.event_hash
        ELSE FALSE
  IN [stage_type |-> supabaseStage.event_type,
      metadata |-> supabaseStage.event_data,
      timestamp |-> supabaseStage.created_at,
      data_integrity |-> isDataValid,
      on_chain_verified |-> onChainVerification,
      verified |-> isDataValid /\ onChainVerification,
      on_chain_data |-> safeOnChainStage]

\* The status computed without the length test: every() of no stage is true.
VerificationStatusNoLength(verifiedStages) ==
  IF \A k \in 1..Len(verifiedStages) : verifiedStages[k].verified
  THEN "FULLY_VERIFIED"
  ELSE IF \E k \in 1..Len(verifiedStages) : verifiedStages[k].verified
  THEN "PARTIALLY_VERIFIED"
  ELSE "NOT_VERIFIED"

\* summary.verification_status
VerificationStatus(verifiedStages) ==
  IF Len(verifiedStages) > 0 /\ \A k \in 1..Len(verifiedStages) : verifiedStages[k].verified
  THEN "FULLY_VERIFIED"
  ELSE IF \E k \in 1..Len(verifiedStages) : verifiedStages[k].verified
  THEN "PARTIALLY_VERIFIED"
  ELSE "NOT_VERIFIED"

\* The body of the 200 response.
BatchStagesBody(g) ==
  LET verifiedStages ==
        [k \in 1..Len(g.supabaseStages) |-> processStage(g.supabaseStages[k], g.onChainStages)]
  IN [message |-> "",
      stages |-> verifiedStages,
      total_stages |-> Len(verifiedStages),
      verified_stages |-> Cardinality({k \in 1..Len(verifiedStages) : verifiedStages[k].verified}),
      verification_status |-> VerificationStatus(verifiedStages)]

\* The outer catch block of the handler.
CatchGetError(g, msg) ==
  [g EXCEPT !.pc = "done",
            !.logged = Append(@, "Error fetching batch stages:"),
            !.res = ResJson(ResStatus(g.res, 500),
                            [message |-> msg, stages |-> <<>>, total_stages |-> 0,
                             verified_stages |-> 0, verification_status |-> ""])]

\* The handler from its start to its first await (the store query).
StartGet(formatted_batch_id) ==
  LET g == [IdleGet EXCEPT !.formatted_batch_id = formatted_batch_id] IN
  IF ~Truthy(formatted_batch_id)
  THEN [g EXCEPT !.pc = "done",
                 !.res = ResJson(ResStatus(g.res, 400),
                                 [message |-> "formatted_batch_id is required",
                                  stages |-> <<>>, total_stages |-> 0,
                                  verified_stages |-> 0, verification_status |-> ""])]
  ELSE [g EXCEPT !.pc = "query"]

ReceiveGet ==
  /\ gs.pc \in {"idle", "done"}
  /\ \E b \in BatchIdParams : gs' = StartGet(b)
  /\ UNCHANGED <<store, ledger, rs>>

\* The store answers the query with the batch's rows, or with an error, which
\* the handler throws; otherwise it goes on to call getBatchSummary.
QueryStore ==
  /\ gs.pc = "query"
  /\ \/ \E rows \in SelectStages(gs.formatted_batch_id) :
          gs' = [gs EXCEPT !.pc = "chain", !.supabaseStages = rows]
     \/ gs' = CatchGetError(gs, "store error")
  /\ UNCHANGED <<store, ledger, rs>>

\* getBatchSummary resolved with the contract's stage list.
ChainFetched(g, stages) == [g EXCEPT !.onChainStages = stages]

\* A ledger failure left to the outer catch block.
ChainFetchFailedRethrows(g) ==
  CatchGetError([g EXCEPT !.logged = Append(@, "Error fetching on-chain stages:")],
                "ledger error")

\* getBatchSummary rejected: the inner catch logs and onChainStages stays [].
ChainFetchFailed(g) ==
  [g EXCEPT !.logged = Append(@, "Error fetching on-chain stages:")]

\* Steps 3 and 4: process every stage and send the combined response.
Respond(g) == [g EXCEPT !.pc = "done", !.res = ResJson(g.res, BatchStagesBody(g))]

\* await getBatchSummary(parseInt(batch_id)), then the rest of the handler.
FetchChain ==
  /\ gs.pc = "chain"
  /\ LET id == ParseInt(gs.formatted_batch_id) IN
     \/ /\ ~id.nan /\ id.n \in LedgerBatches
        /\ LET g == ChainFetched(gs, ledger[id.n]) IN
           gs' = IF g.pc = "chain" THEN Respond(g) ELSE g
     \/ LET g == ChainFetchFailed(gs) IN
        gs' = IF g.pc = "chain" THEN Respond(g) ELSE g
  /\ UNCHANGED <<store, ledger, rs>>

\* --------------------------------------------------------------- behaviour

Next ==
  \/ ReceiveRecord
  \/ \E r \in RecordHandlers : StoreInsert(r)
  \/ \E r \in RecordHandlers : AddStage(r)
  \/ ReceiveGet
  \/ QueryStore
  \/ FetchChain

Spec == Init /\ [][Next]_vars

\* ------------------------------------------------------------------ claims

\* The stage kinds the API recognises, as request values.
Recognised(stage_type) == stage_type.t = "string" /\ stage_type.s \in OwnStageKeys

\* The status of the one response a client received (0: none yet).
WireStatus(res) == IF Len(res.wire) = 1 THEN res.wire[1].status ELSE 0

Rows == {store[k] : k \in 1..Len(store)}

\* The batch-stages handler has answered with the 200 response.
GetAnswered == gs.pc = "done" /\ WireStatus(gs.res) = 200

GetBody == gs.res.wire[1].body

SameKind(stage, row) ==
  StrictEqNumber(ParseInt(stage.stageType), ParseInt(row.event_type))

\* C1: a RecordStage request whose stage_type is missing or is not one of the
\* three recognised kinds, whatever string it is, fails with 400 and inserts
\* no row (and attempts no ledger append).
C1_UnknownStageKindRejected ==
  \A r \in RecordHandlers :
    ~Recognised(r.req.stage_type) =>
      /\ r.pc = "done"
      /\ WireStatus(r.res) = 400
      /\ r.data = <<>>

\* C2: in GetBatchStages a StageEvent whose recomputed hash equals its stored
\* hash, and for which the ledger list holds a stage of the same kind and the
\* same hash, is reported verified=true, whatever else the ledger list holds.
C2_MatchingLedgerEntryVerifies ==
  GetAnswered =>
    \A k \in 1..Len(gs.supabaseStages) :
      LET row == gs.supabaseStages[k] IN
      ( /\ createBatchHash(row.event_data) = row.event_hash
        /\ \E j \in 1..Len(gs.onChainStages) :
             /\ SameKind(gs.onChainStages[j], row)
             /\ gs.onChainStages[j].metadataHash = row.event_hash )
      => GetBody.stages[k].verified

\* C3: verification_status is FULLY_VERIFIED exactly when there is at least
\* one stage and every stage is verified, PARTIALLY_VERIFIED exactly when some
\* but not all stages are verified, NOT_VERIFIED in every other case; a batch
\* with no stored stage yields an empty stage list and NOT_VERIFIED.
C3_VerificationStatus ==
  GetAnswered =>
    LET b == GetBody
        n == Len(b.stages)
        all == \A k \in 1..n : b.stages[k].verified
        some == \E k \in 1..n : b.stages[k].verified
    IN /\ b.verification_status \in {"FULLY_VERIFIED", "PARTIALLY_VERIFIED", "NOT_VERIFIED"}
       /\ b.verification_status = "FULLY_VERIFIED" <=> (n >= 1 /\ all)
       /\ b.verification_status = "PARTIALLY_VERIFIED" <=> (some /\ ~all)
       /\ n = Len(gs.supabaseStages)
       /\ b.total_stages = n
       /\ gs.supabaseStages = <<>> =>
            b.stages = <<>> /\ b.verification_status = "NOT_VERIFIED"

\* A batch answered as PARTIALLY_VERIFIED: one stage verified, another not.
C3_Witness ==
  /\ GetAnswered
  /\ GetBody.verification_status = "PARTIALLY_VERIFIED"
  /\ \E k \in 1..Len(GetBody.stages) : GetBody.stages[k].verified
  /\ \E k \in 1..Len(GetBody.stages) : ~GetBody.stages[k].verified

\* C4: a StageEvent whose stored hash differs from the hash recomputed over
\* its stored metadata is reported with data_integrity, on_chain_verified and
\* verified all false and with no on-chain stage looked up, whatever the
\* ledger list holds.
C4_IntegrityShortCircuits ==
  GetAnswered =>
    \A k \in 1..Len(gs.supabaseStages) :
      LET row == gs.supabaseStages[k] IN
      createBatchHash(row.event_data) # row.event_hash =>
        /\ ~GetBody.stages[k].data_integrity
        /\ ~GetBody.stages[k].on_chain_verified
        /\ ~GetBody.stages[k].verified
        /\ GetBody.stages[k].on_chain_data = <<>>

\* A stage with a stale hash was answered while the ledger list held a stage
\* of its kind carrying exactly the stored hash.
C4_Witness ==
  /\ GetAnswered
  /\ \E k \in 1..Len(gs.supabaseStages) :
       LET row == gs.supabaseStages[k] IN
       /\ createBatchHash(row.event_data) # row.event_hash
       /\ \E j \in 1..Len(gs.onChainStages) :
            /\ SameKind(gs.onChainStages[j], row)
            /\ gs.onChainStages[j].metadataHash = row.event_hash

\* The inner catch block of the batch-stages handler has run.
ChainErrorLogged ==
  \E k \in 1..Len(gs.logged) : gs.logged[k] = "Error fetching on-chain stages:"

\* C5: when the ledger fetch fails and the store query succeeded, the request
\* completes with 200, the ledger list is empty, every stage the store
\* returned is listed, none is on_chain_verified or verified, and the status
\* is NOT_VERIFIED.
C5_LedgerFailureDegrades ==
  (gs.pc = "done" /\ ChainErrorLogged) =>
    /\ WireStatus(gs.res) = 200
    /\ gs.res.calls = 1
    /\ gs.onChainStages = <<>>
    /\ Len(GetBody.stages) = Len(gs.supabaseStages)
    /\ \A k \in 1..Len(gs.supabaseStages) :
         /\ GetBody.stages[k].metadata = gs.supabaseStages[k].event_data
         /\ GetBody.stages[k].stage_type = gs.supabaseStages[k].event_type
         /\ GetBody.stages[k].timestamp = gs.supabaseStages[k].created_at
         /\ ~GetBody.stages[k].on_chain_verified
         /\ ~GetBody.stages[k].verified
    /\ GetBody.verified_stages = 0
    /\ GetBody.verification_status = "NOT_VERIFIED"

\* The ledger fetch failed for a batch with a stored stage of intact data,
\* whose stage the ledger does hold.
C5_Witness ==
  /\ gs.pc = "done"
  /\ ChainErrorLogged
  /\ \E k \in 1..Len(gs.supabaseStages) :
       /\ createBatchHash(gs.supabaseStages[k].event_data) = gs.supabaseStages[k].event_hash
       /\ \E j \in 1..Len(ledger[1]) :
            ledger[1][j].metadataHash = gs.supabaseStages[k].event_hash

\* The 201 carrying the inserted record and its hash has been sent for r, and
\* that record is in the store.
Acknowledged(r) ==
  /\ r.data # <<>>
  /\ r.data[1] \in Rows
  /\ r.res.wire =
       <<[status |-> 201,
          body |-> [message |-> "Stage event recorded successfully",
                    data |-> r.data, batchHash |-> r.batchHash]]>>

\* The handler the step has moved into record r2.
Arrives(r2) == CopiesIn(r2, rs') > CopiesIn(r2, rs)

\* The handler the step has moved out of record r.
Leaves(r) == CopiesIn(r, rs') < CopiesIn(r, rs)

C6_Inv ==
  \A r \in RecordHandlers :
    r.pc \in {"addStage", "rejected"} \/ (r.pc = "done" /\ r.data # <<>>) => Acknowledged(r)

C6_Step ==
  /\ ledger' # ledger =>
       \E r \in RecordHandlers : r.pc = "addStage" /\ Acknowledged(r) /\ Leaves(r)
  /\ \A r2 \in BagToSet(rs') :
       (r2.pc = "rejected" /\ Arrives(r2)) =>
         /\ ledger' = ledger
         /\ store' = store
         /\ \E r \in RecordHandlers :
              /\ r.pc = "addStage" /\ Leaves(r)
              /\ r2.res.wire = r.res.wire
  /\ \A r \in RecordHandlers :
       r.pc \in {"done", "rejected"} => ~Leaves(r)
  /\ \A k \in 1..Len(store) : Len(store') >= k /\ store'[k] = store[k]

\* C6: the ledger append is attempted only after the insert succeeded and the
\* 201 with the record and its hash was sent; when the append fails the
\* caller's outcome stays that 201, the row stays in the store, nothing is
\* appended to the ledger, and the handler takes no further step (no retry).
C6_LedgerMirrorBestEffort == []C6_Inv /\ [][C6_Step]_vars

\* A handler whose ledger append failed: its row is stored, the ledger holds
\* no stage with its hash.
C6_Witness ==
  \E r \in RecordHandlers :
    /\ r.pc = "rejected"
    /\ Recognised(r.req.stage_type)
    /\ r.data[1] \in Rows
    /\ \A j \in 1..Len(ledger[1]) : ledger[1][j].metadataHash # r.batchHash

\* r has completed a RecordStage of a recognised kind whose insert succeeded.
Completed(r) ==
  /\ r.pc \in {"done", "rejected"}
  /\ Recognised(r.req.stage_type)
  /\ r.data # <<>>

\* Two completed calls for batch b with different stage kinds.
ConcurrentPair(r1, r2, b) ==
  /\ Completed(r1) /\ Completed(r2)
  /\ r1.req.stage_type # r2.req.stage_type
  /\ r1.req.formatted_batch_id = b /\ r2.req.formatted_batch_id = b

\* rows lists both calls' records, the earlier created first.
ListsBothInOrder(rows, r1, r2) ==
  \E i, j \in 1..Len(rows) :
    /\ i # j
    /\ rows[i] = r1.data[1] /\ rows[j] = r2.data[1]
    /\ i < j <=> r1.data[1].created_at < r2.data[1].created_at

C7_Inv ==
  /\ \A r \in RecordHandlers :
       r.data # <<>> => WireStatus(r.res) = 201 /\ r.res.wire[1].body.data = r.data
                         /\ r.data[1] \in Rows
  /\ GetAnswered =>
       /\ Len(GetBody.stages) = Len(gs.supabaseStages)
       /\ \A k \in 1..Len(gs.supabaseStages) :
            /\ GetBody.stages[k].timestamp = gs.supabaseStages[k].created_at
            /\ GetBody.stages[k].stage_type = gs.supabaseStages[k].event_type
       /\ \A a, b \in 1..Len(GetBody.stages) :
            a < b => GetBody.stages[a].timestamp <= GetBody.stages[b].timestamp

C7_Step ==
  (gs.pc = "query" /\ gs'.pc = "chain") =>
    \A r1, r2 \in RecordHandlers :
      ConcurrentPair(r1, r2, gs.formatted_batch_id) =>
        ListsBothInOrder(gs'.supabaseStages, r1, r2)

\* C7: two concurrent RecordStage calls for one batch with different
\* recognised kinds, their inserts succeeding, both return 201 and both rows
\* are stored; a GetBatchStages whose query is made after both completed
\* lists both, in ascending creation-time order, whatever order the ledger
\* appends landed in.
C7_ConcurrentRecordsBothListed == []C7_Inv /\ [][C7_Step]_vars

\* Both calls completed, their ledger appends landed in the order opposite to
\* their store inserts, and the answer lists both stages.
C7_Witness ==
  /\ GetAnswered
  /\ \E r1, r2 \in RecordHandlers :
       /\ ConcurrentPair(r1, r2, gs.formatted_batch_id)
       /\ ListsBothInOrder(gs.supabaseStages, r1, r2)
       /\ r1.data[1].created_at < r2.data[1].created_at
       /\ Len(ledger[1]) = 2
       /\ ledger[1][1].metadataHash = r2.batchHash
       /\ ledger[1][1].stageType.s = r2.data[1].event_type.s
       /\ ledger[1][2].stageType.s = r1.data[1].event_type.s

\* C8: metadata is optional: a request with a batch id and a recognised kind
\* but no metadata inserts a StageEvent with empty metadata and returns 201
\* unless the store reports an error; RecordStage fails only with 400 for an
\* invalid or missing stage kind or batch id and with 500 for a store error.
C8_MetadataOptional ==
  \A r \in RecordHandlers :
    ( /\ Truthy(r.req.formatted_batch_id)
      /\ Recognised(r.req.stage_type)
      /\ r.req.metadata = Undefined
      /\ r.pc # "insert" )
    => \/ /\ WireStatus(r.res) = 201
          /\ r.data # <<>>
          /\ r.data[1].event_data = EmptyObject
       \/ /\ WireStatus(r.res) = 500
          /\ r.res.wire[1].body.message = "store error"

\* C9: the hash stored with a StageEvent at write time equals the hash
\* GetBatchStages recomputes over the stored event_data, for every metadata
\* value RecordStage accepts, so every stage written by a successful
\* RecordStage is reported with data_integrity=true.
C9_WriteReadHashConsistent ==
  GetAnswered =>
    \A k \in 1..Len(GetBody.stages) : GetBody.stages[k].data_integrity

\* C10: the add-stage-event handler sends exactly one response on every
\* path: once the 201 is sent no later step attempts to send another.
C10_SingleResponse ==
  \A r \in RecordHandlers :
    /\ r.res.calls <= 1
    /\ r.pc \in {"done", "rejected"} => r.res.calls = 1

====
